---- MODULE Spec2Model ----
(* Model of the static security analysis engine of the secure-code         *)
(* performance dashboard (src/report.py) and of the upload / rerun routes  *)
(* that call it (src/app.py).                                              *)
(*                                                                         *)
(* Text is modelled character by character: a file content is a sequence  *)
(* of one-character strings, so that substring tests, upper-casing and     *)
(* the two regular expressions are computed the way the code computes      *)
(* them.  Files are built from a catalogue of source lines; for every      *)
(* line of the catalogue the result of the external parser (ast.parse,     *)
(* sqlparse.parse, sqlite3.executescript) on that line is tabulated.       *)
EXTENDS Integers, Sequences, FiniteSets, TLC

VARIABLES
    disk,       \* the files on disk, by path
    loc,        \* the frame of every invocation of generate_security_report
    returned,   \* the reports handed back to callers of the analyzer
    ncalls,     \* invocations of the analyzer started so far
    users,      \* the rows of the users table
    files,      \* the rows of the files table
    sqlite_sequence, \* the AUTOINCREMENT counter of the files table
    run_logs,   \* the rows of the run_logs table, in insertion order
    tracing,    \* tracemalloc is tracing
    session,    \* session['username'] of the browser, with the password of the login that set it
    req,        \* the frames of the requests the server is handling, oldest first
    done,       \* the requests handled so far, each with its trace
    signup,     \* the frame of every invocation of signup_user
    signed      \* what the invocations of signup_user returned, in order

vars ==
    <<disk, loc, returned, ncalls, users, files, sqlite_sequence, run_logs, tracing,
      session, req, done, signup, signed>>

---------------------------------------------------------------------------
(* Bounds *)

\* most clean lines in front of the body of a file
MaxPad == 2
\* calls of generate_security_report in one behaviour of Spec
MaxCalls == 3
\* requests served in one behaviour of SpecApp
MaxRequests == 2

\* invocations of the analyzer started in a concurrent run
MaxConcCalls == 2

\* invocations of signup_user
MaxSignups == 3

---------------------------------------------------------------------------
(* Characters and strings *)

LowerLetters ==
    <<"a", "b", "c", "d", "e", "f", "g", "h", "i", "j", "k", "l", "m", "n", "o", "p", "q",
      "r", "s", "t", "u", "v", "w", "x", "y", "z">>

UpperLetters ==
    <<"A", "B", "C", "D", "E", "F", "G", "H", "I", "J", "K", "L", "M", "N", "O", "P", "Q",
      "R", "S", "T", "U", "V", "W", "X", "Y", "Z">>

\* the letters str.upper() and str.lower() change
LowerCase == {LowerLetters[i] : i \in 1..26}

UpperCase == {UpperLetters[i] : i \in 1..26}

\* str.upper() on one character
UpperChar(c) ==
    IF c \in LowerCase
    THEN UpperLetters[CHOOSE i \in 1..26 : LowerLetters[i] = c]
    ELSE c

\* str.lower() on one character
LowerChar(c) ==
    IF c \in UpperCase
    THEN LowerLetters[CHOOSE i \in 1..26 : UpperLetters[i] = c]
    ELSE c

\* content.upper()
Upper(s) == [i \in 1..Len(s) |-> UpperChar(s[i])]

\* str.lower(), the folding re.I applies to an all-lower-case pattern
Lower(s) == [i \in 1..Len(s) |-> LowerChar(s[i])]

\* pat occurs in s at position i
StartsAt(s, i, pat) ==
    /\ i >= 1
    /\ i + Len(pat) - 1 <= Len(s)
    /\ \A k \in 1..Len(pat) : s[i + k - 1] = pat[k]

\* Python's  pat in s
Contains(s, pat) == \E i \in 1..Len(s) : StartsAt(s, i, pat)

\* the characters of the literals that the code searches for
Chars(name) ==
    CASE name = "eval" -> <<"e", "v", "a", "l">>
      [] name = "exec" -> <<"e", "x", "e", "c">>
      [] name = "pickle.loads" ->
            <<"p", "i", "c", "k", "l", "e", ".", "l", "o", "a", "d", "s">>
      [] name = "os.system" -> <<"o", "s", ".", "s", "y", "s", "t", "e", "m">>
      [] name = "subprocess.call" ->
            <<"s", "u", "b", "p", "r", "o", "c", "e", "s", "s", ".", "c", "a", "l", "l">>
      [] name = "system(" -> <<"s", "y", "s", "t", "e", "m", "(">>
      [] name = "input" -> <<"i", "n", "p", "u", "t">>
      [] name = "argv" -> <<"a", "r", "g", "v">>
      [] name = "getenv" -> <<"g", "e", "t", "e", "n", "v">>
      [] name = "password" -> <<"p", "a", "s", "s", "w", "o", "r", "d">>
      [] name = "passwd" -> <<"p", "a", "s", "s", "w", "d">>
      [] name = "secret" -> <<"s", "e", "c", "r", "e", "t">>
      [] name = "key" -> <<"k", "e", "y">>
      [] name = "SELECT" -> <<"S", "E", "L", "E", "C", "T">>
      [] name = "INSERT" -> <<"I", "N", "S", "E", "R", "T">>
      [] name = "UPDATE" -> <<"U", "P", "D", "A", "T", "E">>
      [] name = "DELETE" -> <<"D", "E", "L", "E", "T", "E">>
      [] name = "+" -> <<"+">>
      [] name = "||" -> <<"|", "|">>
      [] name = "EXEC(" -> <<"E", "X", "E", "C", "(">>
      [] name = "EXECUTE IMMEDIATE" ->
            <<"E", "X", "E", "C", "U", "T", "E", " ", "I", "M", "M", "E", "D", "I", "A", "T", "E">>
      [] name = "DROP TABLE" -> <<"D", "R", "O", "P", " ", "T", "A", "B", "L", "E">>
      [] name = "TRUNCATE TABLE" ->
            <<"T", "R", "U", "N", "C", "A", "T", "E", " ", "T", "A", "B", "L", "E">>
      [] name = "GRANT ALL" -> <<"G", "R", "A", "N", "T", " ", "A", "L", "L">>
      [] name = "ALTER USER" -> <<"A", "L", "T", "E", "R", " ", "U", "S", "E", "R">>

\* the decimal text of a line number, as an f-string formats it
IntStr(n) ==
    CASE n = 1 -> "1" [] n = 2 -> "2" [] n = 3 -> "3" [] n = 4 -> "4"
      [] n = 5 -> "5" [] n = 6 -> "6" [] n = 7 -> "7" [] n = 8 -> "8"
      [] n = 9 -> "9"

---------------------------------------------------------------------------
(* The catalogue of source lines *)

PyLineKinds ==
    {"PyClean", "PyEval", "PyNested", "PyAttr", "PyOsSystem", "PyPickle",
     "PySubprocess", "PyCredLower", "PyCredUpper", "PyBroken", "PyDeep", "PyDense"}

SqlLineKinds == {"SqlClean", "SqlInject", "SqlDrop", "SqlGrant", "SqlExec"}

\* the text of a line, without its newline.  PyDeep stands for the line
\* "-" * 200000 + "1" (a unary minus nested deeper than the parser can
\* follow); only its first characters are kept, no literal of the code
\* occurs in it.
LineText(k) ==
    CASE k = "PyClean" -> <<"x", " ", "=", " ", "1">>
      [] k = "PyEval" -> <<"e", "v", "a", "l", "(", "x", ")">>
      [] k = "PyNested" ->
            <<"e", "x", "e", "c", "(", "e", "v", "a", "l", "(", "x", ")", ")">>
      [] k = "PyAttr" -> <<"m", ".", "e", "v", "a", "l", "(", "x", ")">>
      [] k = "PyOsSystem" ->
            <<"o", "s", ".", "s", "y", "s", "t", "e", "m", "(", "i", "n", "p", "u", "t",
              "(", ")", ")">>
      [] k = "PyPickle" ->
            <<"p", "i", "c", "k", "l", "e", ".", "l", "o", "a", "d", "s", "(", "b", ")">>
      [] k = "PySubprocess" ->
            <<"s", "u", "b", "p", "r", "o", "c", "e", "s", "s", ".", "c", "a", "l", "l",
              "(", "c", ")">>
      [] k = "PyCredLower" ->
            <<"p", "a", "s", "s", "w", "o", "r", "d", " ", "=", " ", "\"", "a", "b", "c",
              "1", "2", "3", "\"">>
      [] k = "PyCredUpper" ->
            <<"P", "A", "S", "S", "W", "O", "R", "D", " ", "=", " ", "\"", "a", "b", "c",
              "1", "2", "3", "\"">>
      [] k = "PyBroken" -> <<"d", "e", "f", " ", "f", "(", ":">>
      [] k = "PyDeep" -> <<"-", "-", "-", "1">>
      [] k = "PyDense" ->
            <<"e", "x", "e", "c", "(", "e", "v", "a", "l", "(", "x", ")", ")", ";", "o",
              "s", ".", "s", "y", "s", "t", "e", "m", "(", "i", "n", "p", "u", "t", "(",
              ")", ")", ";", "p", "i", "c", "k", "l", "e", ".", "l", "o", "a", "d", "s",
              "(", "b", ")", ";", "s", "u", "b", "p", "r", "o", "c", "e", "s", "s", ".",
              "c", "a", "l", "l", "(", "c", ")", ";", "k", "e", "y", "=", "\"", "k",
              "\"">>
      [] k = "SqlClean" -> <<"S", "E", "L", "E", "C", "T", " ", "1", ";">>
      [] k = "SqlInject" ->
            <<"s", "e", "l", "e", "c", "t", " ", "1", " ", "|", "|", " ", "'", "i", "n",
              "p", "u", "t", "'", ";">>
      [] k = "SqlDrop" ->
            <<"D", "R", "O", "P", " ", "T", "A", "B", "L", "E", " ", "u", "s", "e", "r",
              "s", ";">>
      [] k = "SqlGrant" ->
            <<"g", "r", "a", "n", "t", " ", "a", "l", "l", " ", "o", "n", " ", "t", " ",
              "t", "o", " ", "u", ";">>
      [] k = "SqlExec" -> <<"E", "X", "E", "C", "(", "x", ")", ";">>

\* f.read(): every line followed by a newline
RECURSIVE JoinLines(_)
JoinLines(lines) ==
    IF lines = <<>> THEN <<>>
    ELSE LineText(Head(lines)) \o <<"\n">> \o JoinLines(Tail(lines))

\* content.splitlines(): the source lines the parsers see, each piece
\* running up to a newline or to the end of the text
SplitLines(s) ==
    LET nl == {i \in 1..Len(s) : s[i] = "\n"}
        ends == nl \cup (IF Len(s) > 0 /\ s[Len(s)] # "\n" THEN {Len(s) + 1} ELSE {})
        EndOf(k) == CHOOSE e \in ends : Cardinality({j \in ends : j < e}) = k - 1
        StartOf(k) == IF k = 1 THEN 1 ELSE EndOf(k - 1) + 1
    IN  [k \in 1..Cardinality(ends) |-> SubSeq(s, StartOf(k), EndOf(k) - 1)]

---------------------------------------------------------------------------
(* The external parsers, tabulated on the lines of the catalogue *)

NameCall(d, id) == [depth |-> d, isName |-> TRUE, id |-> id]
AttrCall(d) == [depth |-> d, isName |-> FALSE, id |-> ""]

\* deepest call-expression of a catalogue line (Module = 0, statement = 1)
MaxDepth == 3

\* most call-expressions on one catalogue line
MaxCallsPerLine == 6

\* ast.parse on one line: the exception it raises, if any, and the
\* ast.Call nodes of the line with their depth in the tree and their callee
\* (an ast.Name with its id, or an ast.Attribute)
ParsePyLine(text) ==
    CASE text = LineText("PyEval") ->
            [fault |-> "none", calls |-> <<NameCall(2, "eval")>>]
      [] text = LineText("PyNested") ->
            [fault |-> "none", calls |-> <<NameCall(2, "exec"), NameCall(3, "eval")>>]
      [] text = LineText("PyAttr") ->
            [fault |-> "none", calls |-> <<AttrCall(2)>>]
      [] text = LineText("PyOsSystem") ->
            [fault |-> "none", calls |-> <<AttrCall(2), NameCall(3, "input")>>]
      [] text = LineText("PyPickle") ->
            [fault |-> "none", calls |-> <<AttrCall(2)>>]
      [] text = LineText("PySubprocess") ->
            [fault |-> "none", calls |-> <<AttrCall(2)>>]
      [] text = LineText("PyBroken") ->
            [fault |-> "SyntaxError", calls |-> <<>>]
      [] text = LineText("PyDeep") ->
            [fault |-> "MemoryError", calls |-> <<>>]
      [] text = LineText("PyDense") ->
            [fault |-> "none",
             calls |-> <<NameCall(2, "exec"), NameCall(3, "eval"), AttrCall(2),
                         NameCall(3, "input"), AttrCall(2), AttrCall(2)>>]
      [] OTHER -> [fault |-> "none", calls |-> <<>>]

\* the Call nodes of depth d on lines i..Len(ls), each with its lineno
RECURSIVE CallsAtDepth(_, _, _)
CallsAtDepth(ls, i, d) ==
    IF i > Len(ls) THEN <<>>
    ELSE LET here == SelectSeq(ParsePyLine(ls[i]).calls, LAMBDA c : c.depth = d)
         IN  [k \in 1..Len(here) |->
                 [isName |-> here[k].isName, id |-> here[k].id, lineno |-> i]]
             \o CallsAtDepth(ls, i + 1, d)

\* ast.walk restricted to ast.Call nodes: breadth first, so by depth and
\* within one depth in source order
RECURSIVE WalkCalls(_, _)
WalkCalls(ls, d) ==
    IF d > MaxDepth THEN <<>>
    ELSE CallsAtDepth(ls, 1, d) \o WalkCalls(ls, d + 1)

\* ast.parse(content): the first faulty line decides the exception
AstParse(content) ==
    LET ls == SplitLines(content)
        faulty == {i \in 1..Len(ls) : ParsePyLine(ls[i]).fault # "none"}
    IN  IF faulty = {}
        THEN [fault |-> "none", calls |-> WalkCalls(ls, 1)]
        ELSE [fault |-> ParsePyLine(
                            ls[CHOOSE i \in faulty : \A j \in faulty : i <= j]).fault,
              calls |-> <<>>]

\* Statement.get_type() of sqlparse for the statement on one line
StmtType(text) ==
    CASE text = LineText("SqlClean") -> "SELECT"
      [] text = LineText("SqlInject") -> "SELECT"
      [] text = LineText("SqlDrop") -> "DROP"
      [] OTHER -> "UNKNOWN"

\* sqlparse.parse(content): one statement per line, every line of the
\* catalogue ends with its semicolon
SqlParse(content) ==
    LET ls == SplitLines(content)
    IN  [i \in 1..Len(ls) |-> StmtType(ls[i])]

\* sqlite3 executescript on one line: does it run without raising
SqlLineRuns(text) ==
    \/ text = LineText("SqlClean")
    \/ text = LineText("SqlInject")

---------------------------------------------------------------------------
(* The regular expressions *)

IsSpace(c) == c \in {" ", "\t", "\n", "\r"}
IsQuote(c) == c \in {"'", "\""}

\* first position at or after i that holds no white space:  \s*
RECURSIVE SkipSpace(_, _)
SkipSpace(s, i) ==
    IF i <= Len(s) /\ IsSpace(s[i]) THEN SkipSpace(s, i + 1) ELSE i

CredWords == <<"password", "passwd", "secret", "key">>

\* re.search(r'(password|passwd|secret|key)\s*=\s*[\'"][^\'"]+[\'"]', s)
CredentialRegex(s) ==
    \E i \in 1..Len(s), w \in 1..Len(CredWords) :
        /\ StartsAt(s, i, Chars(CredWords[w]))
        /\ LET eq == SkipSpace(s, i + Len(Chars(CredWords[w])))
               q  == SkipSpace(s, eq + 1)
           IN  /\ eq <= Len(s)
               /\ s[eq] = "="
               /\ q <= Len(s)
               /\ IsQuote(s[q])
               /\ \E e \in (q + 2)..Len(s) :
                     /\ IsQuote(s[e])
                     /\ \A m \in (q + 1)..(e - 1) : ~IsQuote(s[m])

SqlVerbs == <<"SELECT", "INSERT", "UPDATE", "DELETE">>
SqlConcat == <<"+", "||">>
SqlSources == <<"input", "argv", "getenv">>

\* re.search(r'(SELECT|INSERT|UPDATE|DELETE).*(\+|\|\|).*(input|argv|getenv)',
\*           s, re.I): letters compare without case, "." stops at a newline
InjectionRegex(s) ==
    LET u == Upper(s)
    IN  \E i \in 1..Len(s), v \in 1..Len(SqlVerbs) :
          /\ StartsAt(u, i, Chars(SqlVerbs[v]))
          /\ \E j \in (i + Len(Chars(SqlVerbs[v])))..Len(s), o \in 1..Len(SqlConcat) :
                /\ StartsAt(s, j, Chars(SqlConcat[o]))
                /\ \E k \in (j + Len(Chars(SqlConcat[o])))..Len(s),
                      w \in 1..Len(SqlSources) :
                      /\ StartsAt(u, k, Upper(Chars(SqlSources[w])))
                      /\ \A m \in i..k : s[m] # "\n"

---------------------------------------------------------------------------
(* The security report *)

ReportFields == {"security_issues", "vulnerability_count", "risk_level", "security_score"}

\* the dict literal that both analyzers start from; keys is the set of
\* keys the dict holds, a key outside it has no value
NewReport ==
    [keys |-> ReportFields,
     security_issues |-> <<>>,
     vulnerability_count |-> 0,
     risk_level |-> "Low",
     security_score |-> 100,
     error |-> ""]

\* {'error': 'Unsupported file type for security analysis'}
UnsupportedReport ==
    [keys |-> {"error"},
     security_issues |-> <<>>,
     vulnerability_count |-> 0,
     risk_level |-> "",
     security_score |-> 0,
     error |-> "Unsupported file type for security analysis"]

\* AddIssue with a floor: the score never drops below 0
AddIssueClamped(r, label, penalty) ==
    [r EXCEPT !.security_issues = Append(@, label),
              !.security_score = IF @ - penalty < 0 THEN 0 ELSE @ - penalty]

\* AddIssue that puts the new finding in front of the list
AddIssuePrepended(r, label, penalty) ==
    [r EXCEPT !.security_issues = <<label>> \o @,
              !.security_score = @ - penalty]

\* security_issues.append(label); security_score -= penalty
AddIssue(r, label, penalty) ==
    [r EXCEPT !.security_issues = Append(@, label),
              !.security_score = @ - penalty]

\* security_report['error'] = f"Security analysis failed: {str(e)}"
SetError(r, msg) ==
    [r EXCEPT !.keys = @ \cup {"error"},
              !.error = "Security analysis failed: " \o msg]

\* UpdateRisk without the assignment to vulnerability_count
UpdateRiskStaleCount(r) ==
    IF r.security_score < 50 THEN [r EXCEPT !.risk_level = "High"]
    ELSE IF r.security_score < 80 THEN [r EXCEPT !.risk_level = "Medium"]
    ELSE r

\* UpdateRisk with <= in place of < at both thresholds
UpdateRiskInclusive(r) ==
    LET c == [r EXCEPT !.vulnerability_count = Len(r.security_issues)]
    IN  IF c.security_score <= 50 THEN [c EXCEPT !.risk_level = "High"]
        ELSE IF c.security_score <= 80 THEN [c EXCEPT !.risk_level = "Medium"]
        ELSE c

\* the last lines of both analyzers: count the issues, derive the tier
UpdateRisk(r) ==
    LET c == [r EXCEPT !.vulnerability_count = Len(r.security_issues)]
    IN  IF c.security_score < 50 THEN [c EXCEPT !.risk_level = "High"]
        ELSE IF c.security_score < 80 THEN [c EXCEPT !.risk_level = "Medium"]
        ELSE c

dangerous_funcs == <<"eval", "exec", "pickle.loads", "os.system", "subprocess.call">>

sensitive_ops == <<"DROP TABLE", "TRUNCATE TABLE", "GRANT ALL", "ALTER USER">>

\* for func in dangerous_funcs: if func in content: ...
RECURSIVE ScanDangerous(_, _, _)
ScanDangerous(r, content, funcs) ==
    IF funcs = <<>> THEN r
    ELSE ScanDangerous(
            IF Contains(content, Chars(Head(funcs)))
            THEN AddIssue(r, "Dangerous function used: " \o Head(funcs), 10)
            ELSE r,
            content, Tail(funcs))

\* any(f"system({x}" in content for x in ['input', 'argv', 'getenv'])
CommandInjection(content) ==
    \E x \in {"input", "argv", "getenv"} :
        Contains(content, Chars("system(") \o Chars(x))

\* ScanCalls that skips a function the text-level check already reported
RECURSIVE ScanCallsDeduplicated(_, _)
ScanCallsDeduplicated(r, calls) ==
    IF calls = <<>> THEN r
    ELSE ScanCallsDeduplicated(
            IF /\ Head(calls).isName
               /\ \E i \in 1..Len(dangerous_funcs) : dangerous_funcs[i] = Head(calls).id
               /\ ~\E i \in DOMAIN r.security_issues :
                     r.security_issues[i] = "Dangerous function used: " \o Head(calls).id
            THEN AddIssue(r, "Dangerous function call: " \o Head(calls).id
                                \o " at line " \o IntStr(Head(calls).lineno), 10)
            ELSE r,
            Tail(calls))

\* ScanCalls without the test of the name against dangerous_funcs
RECURSIVE ScanCallsAnyName(_, _)
ScanCallsAnyName(r, calls) ==
    IF calls = <<>> THEN r
    ELSE ScanCallsAnyName(
            IF Head(calls).isName
            THEN AddIssue(r, "Dangerous function call: " \o Head(calls).id
                                \o " at line " \o IntStr(Head(calls).lineno), 10)
            ELSE r,
            Tail(calls))

\* for node in ast.walk(tree): a Call whose func is a Name in dangerous_funcs
RECURSIVE ScanCalls(_, _)
ScanCalls(r, calls) ==
    IF calls = <<>> THEN r
    ELSE ScanCalls(
            IF /\ Head(calls).isName
               /\ \E i \in 1..Len(dangerous_funcs) : dangerous_funcs[i] = Head(calls).id
            THEN AddIssue(r, "Dangerous function call: " \o Head(calls).id
                                \o " at line " \o IntStr(Head(calls).lineno), 10)
            ELSE r,
            Tail(calls))

\* ScanSensitive that compares with the content as written
RECURSIVE ScanSensitiveAsWritten(_, _, _)
ScanSensitiveAsWritten(r, content, ops) ==
    IF ops = <<>> THEN r
    ELSE ScanSensitiveAsWritten(
            IF Contains(content, Chars(Head(ops)))
            THEN AddIssue(r, "Sensitive operation: " \o Head(ops), 15)
            ELSE r,
            content, Tail(ops))

\* for op in sensitive_ops: if op in content.upper(): ...
RECURSIVE ScanSensitive(_, _, _)
ScanSensitive(r, content, ops) ==
    IF ops = <<>> THEN r
    ELSE ScanSensitive(
            IF Contains(Upper(content), Chars(Head(ops)))
            THEN AddIssue(r, "Sensitive operation: " \o Head(ops), 15)
            ELSE r,
            content, Tail(ops))

\* for stmt in statements: if stmt.get_type() == 'UNKNOWN': ...
RECURSIVE ScanStatements(_, _)
ScanStatements(r, types) ==
    IF types = <<>> THEN r
    ELSE ScanStatements(
            IF Head(types) = "UNKNOWN"
            THEN AddIssue(r, "Potentially malformed SQL statement", 10)
            ELSE r,
            Tail(types))

---------------------------------------------------------------------------
(* Files *)

\* open(filepath, 'r', encoding='utf-8') and f.read() raise for a file
\* whose fault is not "ok"; str(e) of the exception
FaultMessage(path, fault) ==
    IF fault = "FileNotFoundError"
    THEN "[Errno 2] No such file or directory: '" \o path \o "'"
    ELSE "'utf-8' codec can't decode byte 0xff in position 0: invalid start byte"

ReadFaults == {"FileNotFoundError", "UnicodeDecodeError"}

\* a file body: at most two lines of the catalogue
Bodies(kinds) ==
    {<<>>} \cup {<<a>> : a \in kinds} \cup {<<a, b>> : a \in kinds, b \in kinds}

\* n clean lines
Pad(clean, n) == [i \in 1..n |-> clean]

\* the files of the model: some clean lines, then a body
PyFiles == {Pad("PyClean", n) \o b : n \in 0..MaxPad, b \in Bodies(PyLineKinds)}

SqlFiles == {Pad("SqlClean", n) \o b : n \in 0..MaxPad, b \in Bodies(SqlLineKinds)}

TextFile(kind, ls) == [kind |-> kind, fault |-> "ok", lines |-> ls]

FaultyFile(kind, fault) == [kind |-> kind, fault |-> fault, lines |-> <<>>]

\* the extensions the analyzer does not support
OtherTypes == {"txt", "PY"}

\* the files a path may hold; kind is the extension, the filetype a caller
\* passes for the file
DiskFiles ==
    {TextFile("py", ls) : ls \in PyFiles} \cup {TextFile("sql", ls) : ls \in SqlFiles}
    \cup {FaultyFile(k, f) : k \in {"py", "sql"}, f \in ReadFaults}
    \cup {TextFile(k, <<"PyEval">>) : k \in OtherTypes}
    \cup {FaultyFile(k, "FileNotFoundError") : k \in OtherTypes}

---------------------------------------------------------------------------
(* One invocation of generate_security_report, statement by statement.   *)
(* A frame holds the locals of the invocation: filepath, filetype,        *)
(* content, security_report, and where it stands (pc).  opened and fault  *)
(* record whether the invocation opened the file and which exception it   *)
(* raised inside.                                                         *)

IdleFrame ==
    [pc |-> "idle", filepath |-> "", filetype |-> "", content |-> <<>>,
     report |-> NewReport, opened |-> FALSE, fault |-> "none", exc |-> "",
     id |-> 0]

\* entering generate_security_report(filepath, filetype); id numbers the
\* invocation
Enter(l, path, ft, id) ==
    [l EXCEPT !.pc = "dispatch", !.filepath = path, !.filetype = ft,
              !.opened = FALSE, !.fault = "none", !.exc = "", !.id = id]

\* Dispatch whose last branch falls through to the SQL analyzer
DispatchFallThrough(l) ==
    IF l.filetype = "py" THEN [l EXCEPT !.pc = "py_init"]
    ELSE [l EXCEPT !.pc = "sql_init"]

\* generate_security_report: the dispatch on filetype
Dispatch(l) ==
    IF l.filetype = "py" THEN [l EXCEPT !.pc = "py_init"]
    ELSE IF l.filetype = "sql" THEN [l EXCEPT !.pc = "sql_init"]
    ELSE [l EXCEPT !.report = UnsupportedReport, !.pc = "return"]

\* InitReport that keeps the dict of the previous invocation
InitReportShared(l, next) == [l EXCEPT !.pc = next]

\* security_report = {...}
InitReport(l, next) == [l EXCEPT !.report = NewReport, !.pc = next]

\* with open(filepath, 'r', encoding='utf-8') as f: content = f.read()
ReadFile(l, f, next, handler) ==
    IF f.fault = "ok"
    THEN [l EXCEPT !.content = JoinLines(f.lines), !.opened = TRUE, !.pc = next]
    ELSE [l EXCEPT !.fault = f.fault, !.exc = FaultMessage(l.filepath, f.fault),
                   !.opened = (f.fault # "FileNotFoundError"), !.pc = handler]

\* except Exception as e: security_report['error'] = ...
Except(l) == [l EXCEPT !.report = SetError(@, l.exc), !.pc = "return"]

PyDangerous(l) ==
    [l EXCEPT !.report = ScanDangerous(@, l.content, dangerous_funcs),
              !.pc = "py_injection"]

PyInjection(l) ==
    [l EXCEPT !.report = IF CommandInjection(l.content)
                         THEN AddIssue(@, "Potential command injection vulnerability", 15)
                         ELSE @,
              !.pc = "py_credentials"]

PyCredentials(l) ==
    [l EXCEPT !.report = IF CredentialRegex(l.content)
                         THEN AddIssue(@, "Hardcoded credentials detected", 20)
                         ELSE @,
              !.pc = "py_ast"]

\* PyAst without the inner try: the parser's exception reaches the outer
\* handler
PyAstSurfaced(l) ==
    LET t == AstParse(l.content)
    IN  IF t.fault # "none"
        THEN [l EXCEPT !.fault = t.fault, !.exc = t.fault, !.pc = "py_except"]
        ELSE [l EXCEPT !.report = ScanCalls(@, t.calls), !.pc = "py_risk"]

\* try: tree = ast.parse(content); for node in ast.walk(tree): ...
\* except: pass
PyAst(l) ==
    LET t == AstParse(l.content)
    IN  IF t.fault # "none"
        THEN [l EXCEPT !.fault = t.fault, !.pc = "py_risk"]
        ELSE [l EXCEPT !.report = ScanCalls(@, t.calls), !.pc = "py_risk"]

Risk(l) == [l EXCEPT !.report = UpdateRisk(@), !.pc = "return"]

SqlInjection(l) ==
    [l EXCEPT !.report = IF InjectionRegex(l.content)
                         THEN AddIssue(@, "Potential SQL injection vulnerability", 30)
                         ELSE @,
              !.pc = "sql_dynamic"]

SqlDynamic(l) ==
    [l EXCEPT !.report = IF \/ Contains(Upper(l.content), Chars("EXEC("))
                            \/ Contains(Upper(l.content), Chars("EXECUTE IMMEDIATE"))
                         THEN AddIssue(@, "Dynamic SQL execution detected", 20)
                         ELSE @,
              !.pc = "sql_sensitive"]

SqlSensitive(l) ==
    [l EXCEPT !.report = ScanSensitive(@, l.content, sensitive_ops),
              !.pc = "sql_parse"]

SqlStatements(l) ==
    [l EXCEPT !.report = ScanStatements(@, SqlParse(l.content)), !.pc = "sql_risk"]

\* the statement the frame executes next
StepOf(l, f) ==
    CASE l.pc = "dispatch" -> Dispatch(l)
      [] l.pc = "py_init" -> InitReport(l, "py_read")
      [] l.pc = "py_read" -> ReadFile(l, f, "py_dangerous", "py_except")
      [] l.pc = "py_dangerous" -> PyDangerous(l)
      [] l.pc = "py_injection" -> PyInjection(l)
      [] l.pc = "py_credentials" -> PyCredentials(l)
      [] l.pc = "py_ast" -> PyAst(l)
      [] l.pc = "py_risk" -> Risk(l)
      [] l.pc = "py_except" -> Except(l)
      [] l.pc = "sql_init" -> InitReport(l, "sql_read")
      [] l.pc = "sql_read" -> ReadFile(l, f, "sql_injection", "sql_except")
      [] l.pc = "sql_injection" -> SqlInjection(l)
      [] l.pc = "sql_dynamic" -> SqlDynamic(l)
      [] l.pc = "sql_sensitive" -> SqlSensitive(l)
      [] l.pc = "sql_parse" -> SqlStatements(l)
      [] l.pc = "sql_risk" -> Risk(l)
      [] l.pc = "sql_except" -> Except(l)

\* a whole invocation: run the frame to its return statement
RECURSIVE RunToReturn(_, _)
RunToReturn(l, f) == IF l.pc = "return" THEN l ELSE RunToReturn(StepOf(l, f), f)

\* generate_security_report(filepath, filetype) as one call
generate_security_report(path, ft, f) ==
    RunToReturn(Enter(IdleFrame, path, ft, 0), f).report

---------------------------------------------------------------------------
(* The analyzer as a state machine *)

\* the invocations that may be in progress
Procs == {1, 2}

\* the paths handed to the analyzer: f holds any file, g a fixed one
Paths == {"f", "g"}

OtherFile == TextFile("py", <<"PyNested", "PyPickle">>)

\* the frame of signup_user outside a call: its locals username and
\* password, and the (success, message) pair it returns
NoSignup ==
    [pc |-> "idle", username |-> <<>>, password |-> <<>>, row |-> 0, shared |-> FALSE,
     result |-> [ok |-> FALSE, message |-> ""]]

\* the frame of a request: row is the first row of the SELECT its cursor
\* executed last, 0 when it found none, and shared tells that the statement
\* is still open; password is the one of the login that filled the session
NoRequest ==
    [pc |-> "idle", handler |-> "", username |-> <<>>, password |-> <<>>, filename |-> "",
     filepath |-> <<>>, filetype |-> "", trace |-> <<>>,
     perf |-> [ok |-> FALSE, filename |-> ""], security |-> NewReport, user_id |-> 0,
     file_id |-> 0, row |-> 0, shared |-> FALSE]

\* the session of a browser that is not logged in
NoSession == [username |-> <<>>, password |-> <<>>]

Init ==
    /\ disk \in {[p \in Paths |-> IF p = "f" THEN file ELSE OtherFile] : file \in DiskFiles}
    /\ loc = [p \in Procs |-> IdleFrame]
    /\ returned = {}
    /\ ncalls = 0
    /\ users = {}
    /\ files = {}
    /\ sqlite_sequence = 0
    /\ run_logs = <<>>
    /\ tracing = FALSE
    /\ session = NoSession
    /\ req = <<>>
    /\ done = <<>>
    /\ signup = [p \in Procs |-> NoSignup]
    /\ signed = <<>>

App == <<users, files, sqlite_sequence, run_logs, tracing, session, req, done, signup,
        signed>>

\* a caller invokes generate_security_report(path, ft)
Call(p, path, ft) ==
    /\ loc[p].pc = "idle"
    /\ ncalls < MaxCalls
    /\ ncalls' = ncalls + 1
    /\ loc' = [loc EXCEPT ![p] = Enter(@, path, ft, ncalls + 1)]
    /\ UNCHANGED <<disk, returned, App>>

\* At with security_report kept in one module-level dict that every
\* invocation in progress writes to
AtShared(p, pcs) ==
    /\ loc[p].pc \in pcs
    /\ LET l == StepOf(loc[p], disk[loc[p].filepath])
       IN  loc' = [q \in Procs |->
                     IF q = p THEN l
                     ELSE IF loc[q].pc \in {"idle", "dispatch"} THEN loc[q]
                     ELSE [loc[q] EXCEPT !.report = l.report]]
    /\ UNCHANGED <<disk, returned, ncalls, App>>

\* the invocation p executes the statement its pc names
At(p, pcs) ==
    /\ loc[p].pc \in pcs
    /\ loc' = [loc EXCEPT ![p] = StepOf(@, disk[@.filepath])]
    /\ UNCHANGED <<disk, returned, ncalls, App>>

DoDispatch(p) == At(p, {"dispatch"})
DoInit(p) == At(p, {"py_init", "sql_init"})
DoRead(p) == At(p, {"py_read", "sql_read"})
DoExcept(p) == At(p, {"py_except", "sql_except"})
DoPyDangerous(p) == At(p, {"py_dangerous"})
DoPyInjection(p) == At(p, {"py_injection"})
DoPyCredentials(p) == At(p, {"py_credentials"})
DoPyAst(p) == At(p, {"py_ast"})
DoSqlInjection(p) == At(p, {"sql_injection"})
DoSqlDynamic(p) == At(p, {"sql_dynamic"})
DoSqlSensitive(p) == At(p, {"sql_sensitive"})
DoSqlStatements(p) == At(p, {"sql_parse"})
DoRisk(p) == At(p, {"py_risk", "sql_risk"})

\* return security_report: the caller receives the report
Return(p) ==
    /\ loc[p].pc = "return"
    /\ returned' = returned \cup
          {[filepath |-> loc[p].filepath, filetype |-> loc[p].filetype,
            report |-> loc[p].report, opened |-> loc[p].opened,
            fault |-> loc[p].fault, call |-> loc[p].id]}
    /\ loc' = [loc EXCEPT ![p].pc = "idle"]
    /\ UNCHANGED <<disk, ncalls, App>>

Step(p) ==
    \/ DoDispatch(p)
    \/ DoInit(p)
    \/ DoRead(p)
    \/ DoExcept(p)
    \/ DoPyDangerous(p)
    \/ DoPyInjection(p)
    \/ DoPyCredentials(p)
    \/ DoPyAst(p)
    \/ DoSqlInjection(p)
    \/ DoSqlDynamic(p)
    \/ DoSqlSensitive(p)
    \/ DoSqlStatements(p)
    \/ DoRisk(p)
    \/ Return(p)

\* the calls of one caller, one after the other, each with the extension
\* of the file as filetype
Next ==
    \/ \E path \in Paths : Call(1, path, disk[path].kind)
    \/ Step(1)

Spec == Init /\ [][Next]_vars

\* the files of the concurrent runs: at most one line each
ConcFiles == {f \in DiskFiles : Len(f.lines) <= 1}

ConcInit ==
    /\ disk \in {[p \in Paths |-> IF p = "f" THEN file ELSE OtherFile] : file \in ConcFiles}
    /\ loc = [p \in Procs |-> IdleFrame]
    /\ returned = {}
    /\ ncalls = 0
    /\ users = {}
    /\ files = {}
    /\ sqlite_sequence = 0
    /\ run_logs = <<>>
    /\ tracing = FALSE
    /\ session = NoSession
    /\ req = <<>>
    /\ done = <<>>
    /\ signup = [p \in Procs |-> NoSignup]
    /\ signed = <<>>

\* invocations in several threads: any invocation in progress takes the
\* next step, in any interleaving
ConcNext ==
    \/ /\ ncalls < MaxConcCalls
       /\ \E p \in Procs, path \in Paths : Call(p, path, disk[path].kind)
    \/ \E p \in Procs : Step(p)

SpecConc == ConcInit /\ [][ConcNext]_vars

---------------------------------------------------------------------------
(* The signature catalogue: the label of every finding and its penalty *)

UsedLabels == {"Dangerous function used: " \o dangerous_funcs[i] : i \in 1..Len(dangerous_funcs)}

CallLabel(id, lineno) == "Dangerous function call: " \o id \o " at line " \o IntStr(lineno)

CallLabels == {CallLabel(dangerous_funcs[i], n) : i \in 1..Len(dangerous_funcs), n \in 1..9}

SensitiveLabels == {"Sensitive operation: " \o sensitive_ops[i] : i \in 1..Len(sensitive_ops)}

PenaltyOf(label) ==
    CASE label \in UsedLabels -> 10
      [] label = "Potential command injection vulnerability" -> 15
      [] label = "Hardcoded credentials detected" -> 20
      [] label \in CallLabels -> 10
      [] label = "Potential SQL injection vulnerability" -> 30
      [] label = "Dynamic SQL execution detected" -> 20
      [] label \in SensitiveLabels -> 15
      [] label = "Potentially malformed SQL statement" -> 10

RECURSIVE SumPenalties(_)
SumPenalties(issues) ==
    IF issues = <<>> THEN 0 ELSE PenaltyOf(Head(issues)) + SumPenalties(Tail(issues))

\* the tier the specification assigns to a score
RiskOf(score) == IF score >= 80 THEN "Low" ELSE IF score >= 50 THEN "Medium" ELSE "High"

\* how many entries of a list lie in a set of labels
CountIn(issues, labels) == Cardinality({i \in DOMAIN issues : issues[i] \in labels})

\* the text of the file a returned report is about
ContentOf(r) == JoinLines(disk[r.filepath].lines)

Analyzed == {r \in returned : r.filetype \in {"py", "sql"}}

---------------------------------------------------------------------------
(* Claims about the analyzer *)

\* C1: every report returned for filetype 'py' or 'sql', with or without an
\* error field, has vulnerability_count equal to the length of its issues list.
C1_CountIsLength ==
    \A r \in Analyzed :
        r.report.vulnerability_count = Len(r.report.security_issues)

C1_Witness ==
    /\ \E r \in Analyzed :
          /\ "error" \notin r.report.keys
          /\ r.report.vulnerability_count >= 5
          /\ CountIn(r.report.security_issues, CallLabels) >= 2
    /\ \E r \in Analyzed : "error" \in r.report.keys

\* C2: the score of every report returned for 'py' or 'sql' is 100 minus the
\* penalties of the findings in its issues list, and is not clamped at 0.
C2_ScoreIsSum ==
    \A r \in Analyzed :
        r.report.security_score = 100 - SumPenalties(r.report.security_issues)

C2_Witness ==
    \E r \in Analyzed :
        /\ SumPenalties(r.report.security_issues) > 100
        /\ r.report.security_score < 0

\* C3: in every report returned without an error field, risk_level is Low for
\* score >= 80, Medium for 50 <= score < 80 and High for score < 50.
C3_RiskFromScore ==
    \A r \in Analyzed :
        "error" \notin r.report.keys =>
            r.report.risk_level = RiskOf(r.report.security_score)

C3_Witness ==
    /\ \E r \in Analyzed :
          r.report.security_score = 80 /\ r.report.risk_level = "Low"
    /\ \E r \in Analyzed :
          r.report.security_score = 50 /\ r.report.risk_level = "Medium"

\* C4: a call with a filetype other than 'py' and 'sql' returns, without
\* raising and without opening the file, a report whose only key is error,
\* with the text 'Unsupported file type for security analysis'.
C4_Unsupported ==
    \A r \in returned :
        r.filetype \notin {"py", "sql"} =>
            /\ r.report.keys = {"error"}
            /\ r.report.error = "Unsupported file type for security analysis"
            /\ ~r.opened
            /\ r.fault = "none"

C4_Witness ==
    /\ \E r \in returned : r.filetype = "PY" /\ disk[r.filepath].fault = "ok"

\* C5: a fault raised at any point while reading or analyzing the file, other
\* than the parse failure of malformed source, yields a report whose error is
\* 'Security analysis failed: <message>'.
C5_FaultIsReported ==
    \A r \in Analyzed :
        r.fault \in ReadFaults \cup {"MemoryError"} =>
            /\ "error" \in r.report.keys
            /\ r.report.error
                 = "Security analysis failed: "
                     \o FaultMessage(r.filepath, disk[r.filepath].fault)

\* C6: for Python source that does not parse, the report has no error field,
\* holds exactly the findings of the text-level checks and no structural
\* finding, and its count and risk level are computed from them.
C6_ParseFailureSwallowed ==
    \A r \in Analyzed :
        (r.filetype = "py" /\ r.fault = "SyntaxError") =>
            LET text == [IdleFrame EXCEPT !.content = ContentOf(r)]
                pattern == PyCredentials(PyInjection(PyDangerous(text))).report
            IN  /\ "error" \notin r.report.keys
                /\ r.report.security_issues = pattern.security_issues
                /\ r.report.security_score = pattern.security_score
                /\ CountIn(r.report.security_issues, CallLabels) = 0
                /\ r.report.vulnerability_count = Len(pattern.security_issues)
                /\ r.report.risk_level = RiskOf(pattern.security_score)

C6_Witness ==
    \E r \in Analyzed :
        /\ r.filetype = "py"
        /\ r.fault = "SyntaxError"
        /\ Contains(ContentOf(r), LineText("PyEval"))
        /\ r.report.vulnerability_count >= 1

\* the bare-name calls of dangerous functions in a file: <<line, name>> for
\* every such call of the catalogue line at that line
BareCalls(lines) ==
    {c \in (DOMAIN lines) \X {"eval", "exec"} :
        \E k \in DOMAIN ParsePyLine(LineText(lines[c[1]])).calls :
            LET n == ParsePyLine(LineText(lines[c[1]])).calls[k]
            IN  n.isName /\ n.id = c[2]}

\* C7: for Python source that parses, every bare-name call of eval or exec is
\* reported twice, as 'Dangerous function used: <name>' and as 'Dangerous
\* function call: <name> at line <L>', with no deduplication; a clean file
\* whose third line is eval(x) yields exactly these two issues, score 80, Low.
C7_BothScannersFire ==
    \A r \in Analyzed :
        (r.filetype = "py" /\ r.fault = "none") =>
            LET lines == disk[r.filepath].lines
                issues == r.report.security_issues
                InList(label) == \E i \in DOMAIN issues : issues[i] = label
            IN  /\ \A c \in BareCalls(lines) :
                      /\ InList("Dangerous function used: " \o c[2])
                      /\ InList(CallLabel(c[2], c[1]))
                /\ CountIn(issues, CallLabels) = Cardinality(BareCalls(lines))
                /\ lines = <<"PyClean", "PyClean", "PyEval">> =>
                      /\ issues = <<"Dangerous function used: eval",
                                    "Dangerous function call: eval at line 3">>
                      /\ r.report.security_score = 80
                      /\ r.report.risk_level = "Low"

C7_Witness ==
    \E r \in Analyzed :
        /\ r.filetype = "py"
        /\ r.fault = "none"
        /\ disk[r.filepath].lines = <<"PyClean", "PyClean", "PyEval">>
        /\ r.report.security_score = 80

\* C8: the hardcoded-credential check fires for an assignment of a quoted
\* literal to password, passwd, secret or key in any letter case, and adds
\* exactly one 'Hardcoded credentials detected' issue.
C8_CredentialsAnyCase ==
    \A r \in Analyzed :
        (r.filetype = "py" /\ "error" \notin r.report.keys) =>
            (CredentialRegex(Lower(ContentOf(r))) =>
                CountIn(r.report.security_issues, {"Hardcoded credentials detected"}) = 1)

\* C9: two invocations on the same unchanged file with the same filetype
\* return identical reports, whatever was invoked before or between them.
C9_Idempotent ==
    \A a \in returned, b \in returned :
        (a.filepath = b.filepath /\ a.filetype = b.filetype) => a.report = b.report

C9_Witness ==
    \E a \in returned, b \in returned, c \in returned :
        /\ a.filepath = "f" /\ b.filepath = "f" /\ c.filepath = "g"
        /\ a.filetype = b.filetype
        /\ a.call < c.call /\ c.call < b.call
        /\ Len(a.report.security_issues) >= 2

---------------------------------------------------------------------------
(* The web application: login, upload and rerun (src/app.py), the         *)
(* execution harness (run_python, run_sql) and the database log.  The     *)
(* server handles requests on threads of their own, so the steps of two   *)
(* requests interleave.                                                    *)
(* Spreadsheet rendering is left out.                                      *)

UPLOAD_FOLDER == "static/uploads"

ALLOWED_EXTENSIONS == {"py", "sql"}

\* user names and passwords are texts: sequences of characters
alice == <<"a", "l", "i", "c", "e">>

bob == <<"b", "o", "b">>

mallory == <<"m", "a", "l", "l", "o", "r", "y">>

Zoe == <<"Z", "o", "e">>

zoe == <<"z", "o", "e">>

alice_pw == <<"a", "l", "i", "c", "e", "-", "p", "w">>

bob_pw == <<"b", "o", "b", "-", "p", "w">>

pw12 == <<"p", "w", "1", "2">>

\* no text: the session without a username, the request of nobody
NoName == <<>>

\* the names a session can hold: the ones a login can be made under
UserNames == {alice, bob, zoe}

\* the users table after two signups
UserRows ==
    {[id |-> 1, username |-> alice, password |-> alice_pw],
     [id |-> 2, username |-> bob, password |-> bob_pw]}

\* what a browser submits to POST /login: the names of the two users, of
\* nobody, and of the user who signs up, typed in lower case
LoginNames == UserNames \cup {mallory}

Passwords == {alice_pw, bob_pw, pw12}

\* what a browser submits to POST /signup
AppSignupNames == {Zoe}

AppSignupPasswords == {pw12}

\* the names a browser submits with an upload
UploadNames == {"a.py", "A.PY", "b.sql", "c.txt"}

\* filename.rsplit('.', 1)[1].lower()
ExtLower(name) ==
    CASE name = "a.py" -> "py"
      [] name = "A.PY" -> "py"
      [] name = "b.sql" -> "sql"
      [] name = "c.txt" -> "txt"

\* '.' in filename and its lower-cased extension is allowed
allowed_file(name) == ExtLower(name) \in ALLOWED_EXTENSIONS

\* the bodies a browser uploads under a name
UploadBodies(name) ==
    IF ExtLower(name) = "sql"
    THEN {<<"SqlInject">>, <<"SqlDrop">>}
    ELSE IF name = "a.py"
    THEN {<<"PyEval">>, <<"PyBroken">>}
    ELSE {<<"PyEval">>}

\* os.path.join(app.config['UPLOAD_FOLDER'], username, filename): a path is
\* the sequence of its components
UploadPath(username, name) == <<UPLOAD_FOLDER, username, name>>

AppPaths == {UploadPath(u, n) : u \in UserNames, n \in UploadNames}

Missing == FaultyFile("", "FileNotFoundError")

\* os.path.exists(filepath)
Exists(path) == disk[path].fault # "FileNotFoundError"

NoUser == 0

\* str.strip(): the text without its leading and trailing blanks
strip(s) ==
    LET inked == {i \in DOMAIN s : s[i] # " "}
    IN  IF inked = {} THEN <<>>
        ELSE SubSeq(s, CHOOSE i \in inked : \A j \in inked : i <= j,
                       CHOOSE i \in inked : \A j \in inked : j <= i)

\* COLLATE NOCASE of sqlite: the 26 upper-case letters of ASCII are folded
\* to lower case, every other character is compared as it is
NOCASE(s) == [i \in DOMAIN s |-> LowerChar(s[i])]

\* the rows a comparison with users.username (COLLATE NOCASE) matches
SameName(username) == {u \in users : NOCASE(u.username) = NOCASE(username)}

\* SELECT id FROM users WHERE username = ?
get_user_id(username) ==
    IF SameName(username) # {}
    THEN (CHOOSE u \in SameName(username) : TRUE).id
    ELSE NoUser

\* SELECT id FROM users WHERE username = ? AND password = ?
login_user(username, password) ==
    \E u \in SameName(username) : u.password = password

\* a connection stands between an INSERT and its commit: it holds the
\* write lock of the database, and the INSERT of any other connection
\* waits for it or gives up with 'database is locked'
WriteLocked ==
    \/ \E k \in DOMAIN req : req[k].pc \in {"upload_commit", "log_commit"}
    \/ \E p \in Procs : signup[p].pc = "commit"

\* a connection stands between cursor.execute of a SELECT that found a row
\* and the fetch of its last row: it holds the shared lock of the database,
\* and the commit of any other connection waits for it or gives up with
\* 'database is locked'.  A SELECT that found no row holds nothing.
\* A SELECT itself waits only for a commit in progress, which started to
\* wait before it and has the same timeout: it is not made to give up.
ReadLocked ==
    \/ \E k \in DOMAIN req : req[k].shared
    \/ \E p \in Procs : signup[p].shared

\* cursor.execute(SELECT ...) of frame f with the first row of its result,
\* 0 when there is none
Pending(f, next, row) == [f EXCEPT !.pc = next, !.row = row, !.shared = row # 0]

\* the statement of frame f is finished: fetchone() of its only row,
\* fetchall(), or the next cursor.execute
Fetched(f, next) == [f EXCEPT !.pc = next, !.row = 0, !.shared = FALSE]

\* INSERT INTO files ... ON CONFLICT(user_id, filename) DO UPDATE SET
\* filepath, filetype: the table after log_file_upload.  file_id is
\* AUTOINCREMENT: the statement takes the id after sqlite_sequence whether
\* it inserts the row or only updates the one in conflict.
log_file_upload(username, name, path, ft) ==
    LET uid == get_user_id(username)
        old == {f \in files : f.user_id = uid /\ f.filename = name}
        next == sqlite_sequence + 1
    IN  IF old = {}
        THEN files \cup {[file_id |-> next, filename |-> name, filepath |-> path,
                          filetype |-> ft, user_id |-> uid]}
        ELSE {IF f \in old THEN [f EXCEPT !.filepath = path, !.filetype = ft] ELSE f :
                 f \in files}

\* os.path.basename(filepath): the last component of the path
basename(path) == path[Len(path)]

\* run_python from call to return: tracemalloc.start(), subprocess.run of
\* the script, whose exit status is not looked at, and tracemalloc.stop();
\* it returns its measurements for every script of a known user
run_python(path, username) ==
    IF get_user_id(username) = NoUser
    THEN [ok |-> FALSE, filename |-> "", tracing |-> tracing]
    ELSE [ok |-> TRUE, filename |-> basename(path), tracing |-> FALSE]

\* conn.executescript(sql) raises at the first statement that fails
SqlRuns(file) == \A i \in DOMAIN file.lines : SqlLineRuns(LineText(file.lines[i]))

\* run_sql from call to return: tracemalloc.start(), the script, and on any
\* exception a bare return of None before tracemalloc.stop()
run_sql(path, username) ==
    IF get_user_id(username) = NoUser
    THEN [ok |-> FALSE, filename |-> "", tracing |-> tracing]
    ELSE IF ~SqlRuns(disk[path])
    THEN [ok |-> FALSE, filename |-> "", tracing |-> TRUE]
    ELSE [ok |-> TRUE, filename |-> basename(path), tracing |-> FALSE]

\* SELECT file_id FROM files WHERE filename = ?: the rows of that name.
\* The statement scans the index of UNIQUE(user_id, filename), so the first
\* row fetched is the one of the lowest user_id.
NamedFiles(name) == {f \in files : f.filename = name}

FirstNamed(name) ==
    CHOOSE f \in NamedFiles(name) : \A g \in NamedFiles(name) : f.user_id <= g.user_id

\* the row log_execution inserts
LogRow(uid, fid, security) ==
    [user_id |-> uid, file_id |-> fid,
     security_score |-> security.security_score,
     risk_level |-> security.risk_level,
     security_issues |-> [null |-> security.security_issues = <<>>,
                          text |-> security.security_issues]]

\* the finished request k, as recorded in done
Finished(k, outcome) ==
    [handler |-> req[k].handler, username |-> req[k].username,
     password |-> req[k].password,
     filename |-> req[k].filename, filetype |-> req[k].filetype,
     trace |-> req[k].trace, outcome |-> outcome,
     security |-> req[k].security, log |-> 0]

\* the requests in flight once request k has been answered
Answered(k) == SubSeq(req, 1, k - 1) \o SubSeq(req, k + 1, Len(req))

Analyzer == <<loc, returned, ncalls>>

AppInit ==
    /\ disk = [p \in AppPaths |-> Missing]
    /\ loc = [p \in Procs |-> IdleFrame]
    /\ returned = {}
    /\ ncalls = 0
    /\ users = UserRows
    /\ files = {}
    /\ sqlite_sequence = 0
    /\ run_logs = <<>>
    /\ tracing = FALSE
    /\ session = NoSession
    /\ req = <<>>
    /\ done = <<>>
    /\ signup = [p \in Procs |-> NoSignup]
    /\ signed = <<>>

---------------------------------------------------------------------------
(* signup_user (src/auth.py), statement by statement, called from several *)
(* threads.                                                                *)

\* the names and passwords submitted to signup
SignupNames ==
    {<<"Z", "o", "e">>, <<"Z", "O", "E">>, <<" ", "z", "o", "e", " ">>, <<" ", "z", "o">>,
     <<"É", "v", "a">>, <<"é", "v", "a">>}

SignupPasswords == {<<"p", "w", "1", "2">>, <<" ", "p", "w", "1">>}

\* id INTEGER PRIMARY KEY AUTOINCREMENT
NextId ==
    IF users = {} THEN 1
    ELSE (CHOOSE u \in users : \A v \in users : v.id <= u.id).id + 1

\* leaving signup_user with (ok, message)
SignupResult(f, ok, message) ==
    [f EXCEPT !.pc = "return", !.row = 0, !.shared = FALSE,
              !.result = [ok |-> ok, message |-> message]]

\* the invocations of signup_user in progress
Signing == {p \in Procs : signup[p].pc # "idle"}

Rest ==
    <<disk, loc, returned, ncalls, files, sqlite_sequence, run_logs, tracing, session, req,
      done>>

\* signup_user(username, password) up to the database: strip both and
\* test their lengths
SignupBegin(p, name, pw) ==
    /\ signup[p].pc = "idle"
    /\ Len(signed) + Cardinality(Signing) < MaxSignups
    /\ LET f == [NoSignup EXCEPT !.username = strip(name), !.password = strip(pw)]
       IN  signup' = [signup EXCEPT ![p] =
              IF Len(f.password) < 4
              THEN SignupResult(f, FALSE, "Password must be at least 4 characters")
              ELSE IF Len(f.username) < 3
              THEN SignupResult(f, FALSE, "Username must be at least 3 characters")
              ELSE [f EXCEPT !.pc = "select"]]
    /\ UNCHANGED <<users, signed, Rest>>

\* cursor.execute("SELECT id FROM users WHERE username = ? COLLATE NOCASE")
SignupSelect(p) ==
    /\ signup[p].pc = "select"
    /\ signup' = [signup EXCEPT ![p] = Pending(@, "fetch", get_user_id(@.username))]
    /\ UNCHANGED <<users, signed, Rest>>

\* if cursor.fetchone(): return False, "Username already exists"
SignupFetch(p) ==
    /\ signup[p].pc = "fetch"
    /\ signup' = [signup EXCEPT ![p] =
          IF @.row # NoUser
          THEN SignupResult(@, FALSE, "Username already exists")
          ELSE Fetched(@, "insert")]
    /\ UNCHANGED <<users, signed, Rest>>

\* INSERT INTO users (username, password) VALUES (?, ?): while another
\* connection holds the write lock the statement waits, and gives up with
\* sqlite3.OperationalError when its timeout passes first; the UNIQUE
\* constraint of users.username raises sqlite3.IntegrityError.  The handler
\* of sqlite3.Error turns both into (False, message); leaving the with
\* block rolls back.
SignupInsert(p) ==
    /\ signup[p].pc = "insert"
    /\ signup' = [signup EXCEPT ![p] =
          IF WriteLocked
          THEN SignupResult(@, FALSE, "Database error: database is locked")
          ELSE IF SameName(@.username) # {}
          THEN SignupResult(@, FALSE,
                            "Database error: UNIQUE constraint failed: users.username")
          ELSE [@ EXCEPT !.pc = "commit"]]
    /\ UNCHANGED <<users, signed, Rest>>

\* conn.commit(): it waits while another connection holds the shared lock,
\* and gives up with sqlite3.OperationalError when its timeout passes
\* first: the with block rolls the INSERT back and the handler returns
\* (False, message).  Otherwise the row is in the table and the write lock
\* is free; return True, "Signup successful"
SignupCommit(p) ==
    /\ signup[p].pc = "commit"
    /\ IF ReadLocked
       THEN /\ signup' = [signup EXCEPT ![p] =
                  SignupResult(@, FALSE, "Database error: database is locked")]
            /\ UNCHANGED users
       ELSE /\ users' = users \cup {[id |-> NextId, username |-> signup[p].username,
                                     password |-> signup[p].password]}
            /\ signup' = [signup EXCEPT ![p] = SignupResult(@, TRUE, "Signup successful")]
    /\ UNCHANGED <<signed, Rest>>

\* the caller receives the pair
SignupReturn(p) ==
    /\ signup[p].pc = "return"
    /\ signed' = Append(signed, [username |-> signup[p].username,
                                 password |-> signup[p].password,
                                 result |-> signup[p].result])
    /\ signup' = [signup EXCEPT ![p] = NoSignup]
    /\ UNCHANGED <<users, Rest>>

---------------------------------------------------------------------------
(* The routes of src/app.py, one step for every statement that reads or   *)
(* writes the database, the disk or tracemalloc                            *)

\* app.run serves every request on a thread of its own; the model has as
\* many request threads as Procs, and a request arrives while one is free
Arrives ==
    /\ Len(req) + Cardinality(Signing) < Cardinality(Procs)
    /\ Len(done) + Len(signed) + Len(req) + Cardinality(Signing) < MaxRequests

\* the places of the requests in flight
Slots == 1..Cardinality(Procs)

\* the frame of a request to a route of the user of the session
Request(handler, name) ==
    [NoRequest EXCEPT !.handler = handler, !.username = session.username,
                      !.password = session.password, !.filename = name]

\* POST /login with a user name and a password, without a username in the
\* session (with one the route redirects to the dashboard): login_user up
\* to cursor.execute of SELECT id FROM users WHERE username = ? AND
\* password = ?
LoginSelect(username, password) ==
    /\ session.username = NoName
    /\ Arrives
    /\ LET rows == {u \in SameName(username) : u.password = password}
           row == IF rows = {} THEN NoUser ELSE (CHOOSE u \in rows : TRUE).id
       IN  req' = Append(req, Pending([NoRequest EXCEPT !.handler = "login",
                                                        !.username = username,
                                                        !.password = password],
                                      "login", row))
    /\ UNCHANGED <<disk, Analyzer, users, signup, signed, files, sqlite_sequence, run_logs,
                   tracing, session, done>>

\* Login that stores the submitted name whatever login_user returned
LoginUnchecked(k) ==
    /\ k \in DOMAIN req
    /\ req[k].pc = "login"
    /\ session' = [username |-> req[k].username, password |-> req[k].password]
    /\ req' = Answered(k)
    /\ UNCHANGED <<disk, Analyzer, users, signup, signed, files, sqlite_sequence, run_logs,
                   tracing, done>>

\* return cursor.fetchone() is not None; if login_user(username, password):
\* session['username'] = username
Login(k) ==
    /\ k \in DOMAIN req
    /\ req[k].pc = "login"
    /\ session' = IF req[k].row # NoUser
                  THEN [username |-> req[k].username, password |-> req[k].password]
                  ELSE session
    /\ req' = Answered(k)
    /\ UNCHANGED <<disk, Analyzer, users, signup, signed, files, sqlite_sequence, run_logs,
                   tracing, done>>

\* GET /logout: session.clear()
Logout ==
    /\ session # NoSession
    /\ session' = NoSession
    /\ UNCHANGED <<disk, Analyzer, users, signup, signed, files, sqlite_sequence, run_logs,
                   tracing, req, done>>

\* POST /signup from a browser without a username in its session (with
\* one the route redirects to the dashboard): the call of signup_user
Signup(p, name, pw) ==
    /\ session.username = NoName
    /\ Arrives
    /\ \A q \in Procs : q < p => signup[q].pc # "idle"
    /\ SignupBegin(p, name, pw)

\* check_login (before_request) and the handlers' own test: a request to
\* a route outside login, signup, static and home without a username in
\* the session is answered with a redirect to login
Redirected(handler, name) ==
    [handler |-> handler, username |-> NoName, password |-> NoName, filename |-> name,
     filetype |-> "", trace |-> <<>>, outcome |-> "login redirect", security |-> NewReport,
     log |-> 0]

\* POST /upload: check_login and user_id = get_user_id(username), up to
\* cursor.execute of SELECT id FROM users WHERE username = ?
UploadBegin(name) ==
    /\ Arrives
    /\ IF session.username = NoName
       THEN /\ done' = Append(done, Redirected("upload", name))
            /\ UNCHANGED req
       ELSE /\ req' = Append(req,
                         Pending([Request("upload", name)
                                    EXCEPT !.filepath = UploadPath(session.username, name),
                                           !.filetype = ExtLower(name)],
                                 "upload_uid", get_user_id(session.username)))
            /\ UNCHANGED done
    /\ UNCHANGED <<disk, Analyzer, users, signup, signed, files, sqlite_sequence, run_logs,
                   tracing, session>>

\* cursor.fetchone() of that get_user_id, and the extension check
UploadFetch(k) ==
    /\ k \in DOMAIN req
    /\ req[k].pc = "upload_uid"
    /\ IF ~allowed_file(req[k].filename)
       THEN /\ req' = Answered(k)
            /\ done' = Append(done, Finished(k, "not allowed"))
       ELSE /\ req' = [req EXCEPT ![k] = Fetched(@, "save")]
            /\ UNCHANGED done
    /\ UNCHANGED <<disk, Analyzer, users, signup, signed, files, sqlite_sequence, run_logs,
                   tracing, session>>

\* file.save(save_path)
UploadSave(k, body) ==
    /\ k \in DOMAIN req
    /\ req[k].pc = "save"
    /\ body \in UploadBodies(req[k].filename)
    /\ disk' = [disk EXCEPT ![req[k].filepath] = TextFile(req[k].filetype, body)]
    /\ req' = [req EXCEPT ![k].pc = "saved"]
    /\ UNCHANGED <<Analyzer, users, signup, signed, files, sqlite_sequence, run_logs,
                   tracing, session, done>>

\* log_file_upload: user_id = get_user_id(username), up to cursor.execute
UploadUser(k) ==
    /\ k \in DOMAIN req
    /\ req[k].pc = "saved"
    /\ req' = [req EXCEPT ![k] = Pending([@ EXCEPT !.trace = <<"log_file_upload">>],
                                         "upload_user", get_user_id(@.username))]
    /\ UNCHANGED <<disk, Analyzer, users, signup, signed, files, sqlite_sequence, run_logs,
                   tracing, session, done>>

\* cursor.fetchone() of that get_user_id; if not user_id: return False, and
\* the upload ends with an error flash
UploadUserFetch(k) ==
    /\ k \in DOMAIN req
    /\ req[k].pc = "upload_user"
    /\ IF req[k].row = NoUser
       THEN /\ req' = Answered(k)
            /\ done' = Append(done, Finished(k, "log error"))
       ELSE /\ req' = [req EXCEPT ![k] = Fetched([@ EXCEPT !.user_id = req[k].row],
                                                 "upload_insert")]
            /\ UNCHANGED done
    /\ UNCHANGED <<disk, Analyzer, users, signup, signed, files, sqlite_sequence, run_logs,
                   tracing, session>>

\* the INSERT of log_file_upload: when it gives up on the write lock the
\* function returns False and the upload ends with an error flash
UploadInsert(k) ==
    /\ k \in DOMAIN req
    /\ req[k].pc = "upload_insert"
    /\ IF WriteLocked
       THEN /\ req' = Answered(k)
            /\ done' = Append(done, Finished(k, "log error"))
       ELSE /\ req' = [req EXCEPT ![k].pc = "upload_commit"]
            /\ UNCHANGED done
    /\ UNCHANGED <<disk, Analyzer, users, signup, signed, files, sqlite_sequence, run_logs,
                   tracing, session>>

\* conn.commit() of log_file_upload: when it gives up on the shared lock
\* of another connection the INSERT is rolled back and the function returns
\* False; otherwise the files row is in the table
UploadCommit(k) ==
    /\ k \in DOMAIN req
    /\ req[k].pc = "upload_commit"
    /\ IF ReadLocked
       THEN /\ req' = Answered(k)
            /\ done' = Append(done, Finished(k, "log error"))
            /\ UNCHANGED <<files, sqlite_sequence>>
       ELSE /\ files' = log_file_upload(req[k].username, req[k].filename,
                                        req[k].filepath, req[k].filetype)
            /\ sqlite_sequence' = sqlite_sequence + 1
            /\ req' = [req EXCEPT ![k].pc = "run"]
            /\ UNCHANGED done
    /\ UNCHANGED <<disk, Analyzer, users, signup, signed, run_logs, tracing, session>>

\* GET /rerun/<filename> up to the call of the execution harness
RerunBegin(name) ==
    /\ Arrives
    /\ IF session.username = NoName
       THEN /\ done' = Append(done, Redirected("rerun", name))
            /\ UNCHANGED req
       ELSE LET f == [Request("rerun", name)
                        EXCEPT !.filepath = UploadPath(session.username, name),
                               !.filetype = ExtLower(name)]
            IN  IF ~Exists(f.filepath)
                THEN /\ done' = Append(done, [Redirected("rerun", name)
                                                EXCEPT !.username = f.username,
                                                       !.password = f.password,
                                                       !.filetype = f.filetype,
                                                       !.outcome = "not found"])
                     /\ UNCHANGED req
                ELSE /\ req' = Append(req, [f EXCEPT !.pc = "run"])
                     /\ UNCHANGED done
    /\ UNCHANGED <<disk, Analyzer, users, signup, signed, files, sqlite_sequence, run_logs,
                   tracing, session>>

\* GET /dashboard: get_user_history up to cursor.execute of its
\* get_user_id
Dashboard ==
    /\ Arrives
    /\ IF session.username = NoName
       THEN /\ done' = Append(done, Redirected("dashboard", ""))
            /\ UNCHANGED req
       ELSE /\ req' = Append(req, Pending(Request("dashboard", ""), "history_uid",
                                          get_user_id(session.username)))
            /\ UNCHANGED done
    /\ UNCHANGED <<disk, Analyzer, users, signup, signed, files, sqlite_sequence, run_logs,
                   tracing, session>>

\* cursor.fetchone() of that get_user_id; if not user_id: return []
HistoryUser(k) ==
    /\ k \in DOMAIN req
    /\ req[k].pc = "history_uid"
    /\ IF req[k].row = NoUser
       THEN /\ req' = Answered(k)
            /\ done' = Append(done, Finished(k, "history"))
       ELSE /\ req' = [req EXCEPT ![k] = Fetched([@ EXCEPT !.user_id = req[k].row], "history")]
            /\ UNCHANGED done
    /\ UNCHANGED <<disk, Analyzer, users, signup, signed, files, sqlite_sequence, run_logs,
                   tracing, session>>

\* SELECT ... FROM run_logs r JOIN files f ON r.file_id = f.file_id
\* WHERE r.user_id = ?
History(uid) ==
    {i \in DOMAIN run_logs :
        /\ run_logs[i].user_id = uid
        /\ \E f \in files : f.file_id = run_logs[i].file_id}

\* cursor.execute of the history query
HistorySelect(k) ==
    /\ k \in DOMAIN req
    /\ req[k].pc = "history"
    /\ req' = [req EXCEPT ![k] =
                 Pending(@, "history_rows",
                         IF History(@.user_id) = {} THEN 0
                         ELSE CHOOSE i \in History(@.user_id) :
                                 \A j \in History(@.user_id) : j <= i)]
    /\ UNCHANGED <<disk, Analyzer, users, signup, signed, files, sqlite_sequence, run_logs,
                   tracing, session, done>>

\* cursor.fetchall() and the rendering of the dashboard
HistoryFetch(k) ==
    /\ k \in DOMAIN req
    /\ req[k].pc = "history_rows"
    /\ req' = Answered(k)
    /\ done' = Append(done, Finished(k, "history"))
    /\ UNCHANGED <<disk, Analyzer, users, signup, signed, files, sqlite_sequence, run_logs,
                   tracing, session>>

\* SELECT ... FROM run_logs r JOIN files f ON r.file_id = f.file_id
\* JOIN users u ON r.user_id = u.id WHERE u.username = ? AND f.filename = ?
LoggedRuns(username, name) ==
    {i \in DOMAIN run_logs :
        /\ run_logs[i].user_id = get_user_id(username)
        /\ \E f \in files : f.file_id = run_logs[i].file_id /\ f.filename = name}

\* GET /report/<filename> up to cursor.execute of the query for the user's
\* last run of the file (ORDER BY r.timestamp DESC LIMIT 1)
ReportDetails(name) ==
    /\ Arrives
    /\ IF session.username = NoName
       THEN /\ done' = Append(done, Redirected("report_details", name))
            /\ UNCHANGED req
       ELSE LET runs == LoggedRuns(session.username, name)
            IN  /\ req' = Append(req,
                            Pending(Request("report_details", name), "details",
                                    IF runs = {} THEN 0
                                    ELSE CHOOSE i \in runs : \A j \in runs : j <= i))
                /\ UNCHANGED done
    /\ UNCHANGED <<disk, Analyzer, users, signup, signed, files, sqlite_sequence, run_logs,
                   tracing, session>>

\* result = cursor.fetchone(): the stored report, or a redirect to the
\* dashboard when there is none
DetailsFetch(k) ==
    /\ k \in DOMAIN req
    /\ req[k].pc = "details"
    /\ req' = Answered(k)
    /\ done' = Append(done, Finished(k, IF req[k].row # 0 THEN "stored report"
                                        ELSE "no report"))
    /\ UNCHANGED <<disk, Analyzer, users, signup, signed, files, sqlite_sequence, run_logs,
                   tracing, session>>

\* the harness of a file type
Harness(ft) == IF ft = "py" THEN "run_python" ELSE "run_sql"

\* report = run_python(...) if filetype == 'py' else run_sql(...): its
\* get_user_id up to cursor.execute
RunUser(k) ==
    /\ k \in DOMAIN req
    /\ req[k].pc = "run"
    /\ req' = [req EXCEPT ![k] =
                 Pending([@ EXCEPT !.trace = Append(@, Harness(req[k].filetype))],
                         "run_uid", get_user_id(@.username))]
    /\ UNCHANGED <<disk, Analyzer, users, signup, signed, files, sqlite_sequence, run_logs,
                   tracing, session, done>>

\* cursor.fetchone() and conn.close() of that get_user_id: an unknown user
\* returns None before tracemalloc.start() and the request ends with an
\* error flash
RunUserFetch(k) ==
    /\ k \in DOMAIN req
    /\ req[k].pc = "run_uid"
    /\ IF req[k].row = NoUser
       THEN /\ req' = Answered(k)
            /\ done' = Append(done, [Finished(k, "execution error")
                                        EXCEPT !.trace = Append(req[k].trace,
                                                  Harness(req[k].filetype) \o " returned")])
       ELSE /\ req' = [req EXCEPT ![k] = Fetched(@, "start")]
            /\ UNCHANGED done
    /\ UNCHANGED <<disk, Analyzer, users, signup, signed, files, sqlite_sequence, run_logs,
                   tracing, session>>

\* tracemalloc.start()
RunStart(k) ==
    /\ k \in DOMAIN req
    /\ req[k].pc = "start"
    /\ tracing' = TRUE
    /\ req' = [req EXCEPT ![k].pc = "running"]
    /\ UNCHANGED <<disk, Analyzer, users, signup, signed, files, sqlite_sequence, run_logs,
                   session, done>>

\* the script: subprocess.run of a Python file, whatever its exit status,
\* or the read of an SQL file and conn.executescript.  An exception of the
\* SQL script makes run_sql return None, tracemalloc left as it is, and the
\* request ends with an error flash.
RunScript(k) ==
    /\ k \in DOMAIN req
    /\ req[k].pc = "running"
    /\ LET harness == Harness(req[k].filetype)
           perf == IF req[k].filetype = "py"
                   THEN run_python(req[k].filepath, req[k].username)
                   ELSE run_sql(req[k].filepath, req[k].username)
       IN  IF perf.ok
           THEN /\ req' = [req EXCEPT ![k].pc = "ran",
                                      ![k].perf = [ok |-> TRUE, filename |-> perf.filename]]
                /\ UNCHANGED done
           ELSE /\ req' = Answered(k)
                /\ done' = Append(done, [Finished(k, "execution error")
                                            EXCEPT !.trace = Append(req[k].trace,
                                                                    harness \o " returned")])
    /\ UNCHANGED <<disk, Analyzer, users, signup, signed, files, sqlite_sequence, run_logs,
                   tracing, session>>

\* tracemalloc.stop() and the return of the measurements
RunStop(k) ==
    /\ k \in DOMAIN req
    /\ req[k].pc = "ran"
    /\ tracing' = FALSE
    /\ req' = [req EXCEPT ![k].pc = "analyze",
                          ![k].trace = Append(@, Harness(req[k].filetype) \o " returned")]
    /\ UNCHANGED <<disk, Analyzer, users, signup, signed, files, sqlite_sequence, run_logs,
                   session, done>>

\* the files an upload can store
Stored ==
    UNION {{TextFile(ExtLower(n), b) : b \in UploadBodies(n)} :
              n \in {m \in UploadNames : allowed_file(m)}}

\* generate_security_report(filepath, filetype) on every stored file, worked
\* out once
AppReports ==
    [path \in AppPaths, ft \in ALLOWED_EXTENSIONS, f \in Stored |->
        generate_security_report(path, ft, f)]

\* security_report = generate_security_report(filepath, filetype)
Analyze(k) ==
    /\ k \in DOMAIN req
    /\ req[k].pc = "analyze"
    /\ req' = [req EXCEPT
                 ![k].pc = "log",
                 ![k].trace = Append(@, "generate_security_report"),
                 ![k].security = AppReports[req[k].filepath, req[k].filetype,
                                            disk[req[k].filepath]]]
    /\ UNCHANGED <<disk, Analyzer, users, signup, signed, files, sqlite_sequence, run_logs,
                   tracing, session, done>>

\* user_id = get_user_id(username) before log_execution, up to
\* cursor.execute
LogUser(k) ==
    /\ k \in DOMAIN req
    /\ req[k].pc = "log"
    /\ req' = [req EXCEPT ![k] = Pending(@, "log_uid", get_user_id(@.username))]
    /\ UNCHANGED <<disk, Analyzer, users, signup, signed, files, sqlite_sequence, run_logs,
                   tracing, session, done>>

\* cursor.fetchone() of that get_user_id; if user_id: log_execution(...),
\* and without one the report is rendered unlogged
LogUserFetch(k) ==
    /\ k \in DOMAIN req
    /\ req[k].pc = "log_uid"
    /\ IF req[k].row = NoUser
       THEN /\ req' = Answered(k)
            /\ done' = Append(done, Finished(k, "report"))
       ELSE /\ req' = [req EXCEPT ![k] = Fetched([@ EXCEPT !.user_id = req[k].row],
                                                 "log_select")]
            /\ UNCHANGED done
    /\ UNCHANGED <<disk, Analyzer, users, signup, signed, files, sqlite_sequence, run_logs,
                   tracing, session>>

\* log_execution up to cursor.execute of SELECT file_id FROM files WHERE
\* filename = ?, which has no user_id in its WHERE clause
LogSelect(k) ==
    /\ k \in DOMAIN req
    /\ req[k].pc = "log_select"
    /\ req' = [req EXCEPT ![k] =
                 Pending([@ EXCEPT !.trace = Append(@, "log_execution")], "log_fetch",
                         IF NamedFiles(@.filename) = {} THEN 0
                         ELSE FirstNamed(@.filename).file_id)]
    /\ UNCHANGED <<disk, Analyzer, users, signup, signed, files, sqlite_sequence, run_logs,
                   tracing, session, done>>

\* file_id = cursor.fetchone()[0]: without a row the subscript of None
\* raises, the handler prints and the report is rendered unlogged.  With
\* rows of several users the statement stays open, and the shared lock
\* with it, until the cursor executes the INSERT.
LogFetch(k) ==
    /\ k \in DOMAIN req
    /\ req[k].pc = "log_fetch"
    /\ IF req[k].row = 0
       THEN /\ req' = Answered(k)
            /\ done' = Append(done, Finished(k, "report"))
       ELSE /\ req' = [req EXCEPT
                         ![k].pc = "log_insert",
                         ![k].file_id = req[k].row,
                         ![k].row = 0,
                         ![k].shared = Cardinality(NamedFiles(req[k].filename)) > 1]
            /\ UNCHANGED done
    /\ UNCHANGED <<disk, Analyzer, users, signup, signed, files, sqlite_sequence, run_logs,
                   tracing, session>>

\* the INSERT of log_execution: cursor.execute closes the SELECT of the
\* cursor, and the shared lock with it, before the INSERT asks for the
\* write lock.  While another connection holds that lock the INSERT waits;
\* when it gives up the handler prints, no row is written and the report
\* is rendered.
LogInsert(k) ==
    /\ k \in DOMAIN req
    /\ req[k].pc = "log_insert"
    /\ IF WriteLocked
       THEN \/ /\ req' = Answered(k)
               /\ done' = Append(done, Finished(k, "report"))
            \/ /\ req[k].shared
               /\ req' = [req EXCEPT ![k].shared = FALSE]
               /\ UNCHANGED done
       ELSE /\ req' = [req EXCEPT ![k] = Fetched(@, "log_commit")]
            /\ UNCHANGED done
    /\ UNCHANGED <<disk, Analyzer, users, signup, signed, files, sqlite_sequence, run_logs,
                   tracing, session>>

\* conn.commit() of log_execution and the rendering of the report: when
\* the commit gives up on the shared lock of another connection the
\* handler prints and the INSERT is rolled back
LogCommit(k) ==
    /\ k \in DOMAIN req
    /\ req[k].pc = "log_commit"
    /\ IF ReadLocked
       THEN /\ done' = Append(done, Finished(k, "report"))
            /\ UNCHANGED run_logs
       ELSE /\ run_logs' = Append(run_logs, LogRow(req[k].user_id, req[k].file_id,
                                                   req[k].security))
            /\ done' = Append(done, [Finished(k, "report")
                                       EXCEPT !.log = Len(run_logs) + 1])
    /\ req' = Answered(k)
    /\ UNCHANGED <<disk, Analyzer, users, signup, signed, files, sqlite_sequence, tracing,
                   session>>

AppNext ==
    \/ \E u \in LoginNames, pw \in Passwords : LoginSelect(u, pw)
    \/ \E k \in Slots : Login(k)
    \/ Logout
    \/ \E p \in Procs, name \in AppSignupNames, pw \in AppSignupPasswords :
          Signup(p, name, pw)
    \/ \E p \in Procs : SignupSelect(p)
    \/ \E p \in Procs : SignupFetch(p)
    \/ \E p \in Procs : SignupInsert(p)
    \/ \E p \in Procs : SignupCommit(p)
    \/ \E p \in Procs : SignupReturn(p)
    \/ \E name \in UploadNames : UploadBegin(name)
    \/ \E k \in Slots : UploadFetch(k)
    \/ \E k \in Slots : \E body \in UNION {UploadBodies(n) : n \in UploadNames} :
          UploadSave(k, body)
    \/ \E k \in Slots : UploadUser(k)
    \/ \E k \in Slots : UploadUserFetch(k)
    \/ \E k \in Slots : UploadInsert(k)
    \/ \E k \in Slots : UploadCommit(k)
    \/ \E name \in UploadNames : RerunBegin(name)
    \/ Dashboard
    \/ \E k \in Slots : HistoryUser(k)
    \/ \E k \in Slots : HistorySelect(k)
    \/ \E k \in Slots : HistoryFetch(k)
    \/ \E name \in UploadNames : ReportDetails(name)
    \/ \E k \in Slots : DetailsFetch(k)
    \/ \E k \in Slots : RunUser(k)
    \/ \E k \in Slots : RunUserFetch(k)
    \/ \E k \in Slots : RunStart(k)
    \/ \E k \in Slots : RunScript(k)
    \/ \E k \in Slots : RunStop(k)
    \/ \E k \in Slots : Analyze(k)
    \/ \E k \in Slots : LogUser(k)
    \/ \E k \in Slots : LogUserFetch(k)
    \/ \E k \in Slots : LogSelect(k)
    \/ \E k \in Slots : LogFetch(k)
    \/ \E k \in Slots : LogInsert(k)
    \/ \E k \in Slots : LogCommit(k)

SpecApp == AppInit /\ [][AppNext]_vars

\* position of the first occurrence of an event in a trace, 0 when absent
IndexOf(trace, event) ==
    IF \E i \in DOMAIN trace : trace[i] = event
    THEN CHOOSE i \in DOMAIN trace : trace[i] = event /\ \A j \in 1..(i - 1) : trace[j] # event
    ELSE 0

\* the requests that passed the extension check and reached the harness
Executed == {i \in DOMAIN done : IndexOf(done[i].trace, "run_python") > 0
                                   \/ IndexOf(done[i].trace, "run_sql") > 0}

\* C10: in every upload or rerun of an accepted .py/.sql file by a known
\* user the security analysis is invoked, after run_python / run_sql has
\* returned, whether or not the execution of the script succeeded.
C10_AnalysisFollowsEveryRun ==
    \A i \in Executed :
        LET trace == done[i].trace
            ret == IF done[i].filetype = "py" THEN "run_python returned"
                   ELSE "run_sql returned"
        IN  /\ IndexOf(trace, "generate_security_report") > 0
            /\ IndexOf(trace, ret) < IndexOf(trace, "generate_security_report")

\* the files row a run_logs row references
FileOf(row) == CHOOSE f \in files : f.file_id = row.file_id

\* the requests whose log_execution wrote a row
Logged == {i \in DOMAIN done : done[i].log > 0}

\* C11: every run_logs row written by log_execution references a files row
\* of the same user_id as the log row, which is the row of the file that
\* was run, and carries the score, risk level and issues of that run.
C11_LogKeyedByUserAndFile ==
    \A i \in Logged :
        LET row == run_logs[done[i].log]
            f == FileOf(row)
        IN  /\ row.user_id = get_user_id(done[i].username)
            /\ f.user_id = row.user_id
            /\ f.filename = done[i].filename
            /\ f.filepath = UploadPath(done[i].username, done[i].filename)
            /\ row.security_score = done[i].security.security_score
            /\ row.risk_level = done[i].security.risk_level
            /\ row.security_issues.text = done[i].security.security_issues

\* what the invocation returns when it runs alone
Alone(r) == generate_security_report(r.filepath, r.filetype, disk[r.filepath])

\* C12: under any interleaving of the steps of concurrent invocations, each
\* invocation returns exactly the report it returns when run alone.
C12_Reentrant == \A r \in returned : r.report = Alone(r)

\* the second invocation ran from call to return while the first, on the
\* other file, was in the middle of its scans
C12_Witness ==
    \E r \in returned, p \in Procs :
        /\ r.call = 2
        /\ Len(r.report.security_issues) >= 2
        /\ loc[p].id = 1
        /\ loc[p].pc \in {"py_credentials", "py_ast", "sql_sensitive", "sql_parse"}
        /\ loc[p].filepath # r.filepath
        /\ Len(loc[p].report.security_issues) >= 1

---------------------------------------------------------------------------
(* Claims about the order and the content of the issues list *)

\* position of an entry in a list, 0 when absent
PlaceIn(list, x) ==
    IF \E i \in DOMAIN list : list[i] = x
    THEN CHOOSE i \in DOMAIN list : list[i] = x
    ELSE 0

\* catalogue-declaration order of the labels of one language; the
\* structural / statement-classification label comes last
PyCatalogue ==
    [i \in 1..Len(dangerous_funcs) |-> "Dangerous function used: " \o dangerous_funcs[i]]
    \o <<"Potential command injection vulnerability", "Hardcoded credentials detected">>

SqlCatalogue ==
    <<"Potential SQL injection vulnerability", "Dynamic SQL execution detected">>
    \o [i \in 1..Len(sensitive_ops) |-> "Sensitive operation: " \o sensitive_ops[i]]

\* rank of a label: its place in the catalogue, and one more than the
\* catalogue's length for a finding of the second pass
RankOf(catalogue, label) ==
    IF PlaceIn(catalogue, label) > 0 THEN PlaceIn(catalogue, label)
    ELSE Len(catalogue) + 1

\* a list is in discovery order: strictly by rank among the text-level
\* labels, the findings of the second pass after all of them
InDiscoveryOrder(issues, catalogue) ==
    \A i \in DOMAIN issues, j \in DOMAIN issues :
        i < j => \/ RankOf(catalogue, issues[i]) < RankOf(catalogue, issues[j])
                 \/ /\ RankOf(catalogue, issues[i]) = Len(catalogue) + 1
                    /\ RankOf(catalogue, issues[j]) = Len(catalogue) + 1

\* the issues one heuristic reports when it runs on the content with an
\* empty report
OnItsOwn(Heuristic(_), content) ==
    Heuristic([IdleFrame EXCEPT !.content = content]).report.security_issues

\* the invocations at their return statement that read their file and
\* raised nothing: their report is the one the caller receives
Scanned ==
    {loc[p] : p \in {q \in Procs : /\ loc[q].pc = "return"
                                   /\ loc[q].filetype \in {"py", "sql"}
                                   /\ loc[q].opened
                                   /\ "error" \notin loc[q].report.keys}}

\* C13: the issues list is in discovery order: the text-level findings in
\* catalogue order, the structural (Python) or statement (SQL) findings
\* after all of them, and every heuristic reports what it reports on its
\* own, whatever the heuristics before it found.
C13_DiscoveryOrder ==
    \A l \in Scanned :
        LET c == l.content
            issues == l.report.security_issues
        IN  IF l.filetype = "py"
            THEN /\ InDiscoveryOrder(issues, PyCatalogue)
                 /\ issues = OnItsOwn(PyDangerous, c) \o OnItsOwn(PyInjection, c)
                               \o OnItsOwn(PyCredentials, c) \o OnItsOwn(PyAst, c)
            ELSE /\ InDiscoveryOrder(issues, SqlCatalogue)
                 /\ issues = OnItsOwn(SqlInjection, c) \o OnItsOwn(SqlDynamic, c)
                               \o OnItsOwn(SqlSensitive, c) \o OnItsOwn(SqlStatements, c)

\* an SQL invocation returning an injection, a sensitive operation and a
\* malformed statement, after a Python report with findings of both passes
C13_Witness ==
    /\ \E l \in Scanned :
          /\ l.filetype = "sql"
          /\ PlaceIn(l.report.security_issues, "Potential SQL injection vulnerability") = 1
          /\ PlaceIn(l.report.security_issues, "Sensitive operation: GRANT ALL") = 2
          /\ PlaceIn(l.report.security_issues, "Potentially malformed SQL statement") = 3
    /\ \E r \in Analyzed :
          /\ r.filetype = "py"
          /\ CountIn(r.report.security_issues, UsedLabels) >= 3
          /\ CountIn(r.report.security_issues, CallLabels) >= 2
          /\ InDiscoveryOrder(r.report.security_issues, PyCatalogue)

\* the positions where a phrase occurs in a text, letter case ignored
Occurrences(content, phrase) ==
    LET text == Lower(content)
        pat == Lower(Chars(phrase))
    IN  {i \in 1..Len(text) : StartsAt(text, i, pat)}

\* the SQL invocations among Scanned
ScannedSql == {l \in Scanned : l.filetype = "sql"}

\* the lines of a text are all among the given catalogue lines
LinesAmong(content, kinds) ==
    LET ls == SplitLines(content)
    IN  \A i \in DOMAIN ls : \E k \in kinds : ls[i] = LineText(k)

\* C14: an SQL report holds 'Sensitive operation: <OP>' exactly once for
\* each of the four operations that occurs in the content in any letter
\* case, however often, and not at all for the others; each costs 15, and
\* a file of clean statements and DROP TABLE users; scores 85, Low.
C14_SensitiveOncePerOperation ==
    \A l \in ScannedSql :
        LET issues == l.report.security_issues
        IN  /\ \A k \in DOMAIN sensitive_ops :
                  CountIn(issues, {"Sensitive operation: " \o sensitive_ops[k]})
                     = IF Occurrences(l.content, sensitive_ops[k]) # {} THEN 1 ELSE 0
            /\ CountIn(issues, SensitiveLabels) = Len(issues)
                  => l.report.security_score = 100 - 15 * Len(issues)
            /\ (/\ LinesAmong(l.content, {"SqlClean", "SqlDrop"})
                /\ Occurrences(l.content, "DROP TABLE") # {})
                  => /\ issues = <<"Sensitive operation: DROP TABLE">>
                     /\ l.report.security_score = 85
                     /\ l.report.risk_level = "Low"

\* GRANT ALL written twice in lower case is reported once
C14_Witness ==
    \E l \in ScannedSql :
        /\ Cardinality(Occurrences(l.content, "GRANT ALL")) = 2
        /\ ~Contains(l.content, Chars("GRANT ALL"))
        /\ CountIn(l.report.security_issues, {"Sensitive operation: GRANT ALL"}) = 1

\* the call-expression nodes of a parsed text: <<line, k>> is the k-th
\* ast.Call of the line
CallNodes(ls) ==
    {n \in (DOMAIN ls) \X (1..MaxCallsPerLine) : n[2] <= Len(ParsePyLine(ls[n[1]]).calls)}

CalleeOf(ls, n) == ParsePyLine(ls[n[1]]).calls[n[2]]

\* the nodes whose callee is an unqualified name of the dangerous set
BareDangerous(ls) ==
    {n \in CallNodes(ls) :
        /\ CalleeOf(ls, n).isName
        /\ \E i \in DOMAIN dangerous_funcs : dangerous_funcs[i] = CalleeOf(ls, n).id}

\* the Python invocations among Scanned whose source parsed
ScannedPy == {l \in Scanned : l.filetype = "py" /\ l.fault = "none"}

\* the entries of an issues list that are not text-level labels
SecondPass(issues) ==
    SelectSeq(issues, LAMBDA x : PlaceIn(PyCatalogue, x) = 0)

\* C15: the structural findings of a parsed Python file are exactly one
\* 'Dangerous function call: <name> at line <n>' with penalty 10 per call
\* node whose callee is a bare name of the dangerous set; qualified calls
\* and calls of other names add nothing, so their number is the number of
\* bare eval/exec call nodes.
C15_StructuralFindings ==
    \A l \in ScannedPy :
        LET ls == SplitLines(l.content)
            found == SecondPass(l.report.security_issues)
            bare == BareDangerous(ls)
        IN  /\ Len(found) = Cardinality(bare)
            /\ \A n \in bare : CalleeOf(ls, n).id \in {"eval", "exec"}
            /\ \A line \in DOMAIN ls, id \in {"eval", "exec"} :
                  CountIn(found, {CallLabel(id, line)})
                     = Cardinality({n \in bare : n[1] = line /\ CalleeOf(ls, n).id = id})
            /\ l.report.security_score
                  = 100 - SumPenalties(SelectSeq(l.report.security_issues,
                                                 LAMBDA x : PlaceIn(PyCatalogue, x) > 0))
                        - 10 * Cardinality(bare)

\* a file with two bare calls, three qualified calls and a call of a name
\* outside the set returns two structural findings
C15_Witness ==
    \E l \in ScannedPy :
        LET ls == SplitLines(l.content)
        IN  /\ Cardinality(BareDangerous(ls)) = 2
            /\ Cardinality({n \in CallNodes(ls) : ~CalleeOf(ls, n).isName}) = 3
            /\ \E n \in CallNodes(ls) : CalleeOf(ls, n).id = "input"
            /\ Len(SecondPass(l.report.security_issues)) = 2

---------------------------------------------------------------------------
(* Claims about the web application *)

\* the names that pass login_user with some password
Authenticatable == {u \in LoginNames : \E pw \in Passwords : login_user(u, pw)}

\* the requests that were not answered with the redirect to login: the
\* body of their handler ran
Served == {i \in DOMAIN done : done[i].outcome # "login redirect"}

\* the name was stored by a login whose login_user found its row: a row
\* of that name and password exists (rows are never deleted or changed)
LoggedIn(r) == login_user(r.username, r.password)

Running == {k \in DOMAIN req : req[k].pc \in {"running", "ran"}}

\* C17: every run_python / run_sql that starts tracing stops it before it
\* returns, on every return path: tracing is off whenever no thread is
\* inside a call of the harness.
C17_TracingBalanced == Running = {} => tracing = FALSE

-------------------------------------------------------------------------------------------------------------------------------------------------
(* signup_user called from several threads *)

\* the database after init_user_db: no rows
SignupInit ==
    /\ disk = [p \in Paths |-> OtherFile]
    /\ loc = [p \in Procs |-> IdleFrame]
    /\ returned = {}
    /\ ncalls = 0
    /\ users = {}
    /\ files = {}
    /\ sqlite_sequence = 0
    /\ run_logs = <<>>
    /\ tracing = FALSE
    /\ session = NoSession
    /\ req = <<>>
    /\ done = <<>>
    /\ signup = [p \in Procs |-> NoSignup]
    /\ signed = <<>>

SignupNext ==
    \/ \E p \in Procs, name \in SignupNames, pw \in SignupPasswords : SignupBegin(p, name, pw)
    \/ \E p \in Procs : SignupSelect(p)
    \/ \E p \in Procs : SignupFetch(p)
    \/ \E p \in Procs : SignupInsert(p)
    \/ \E p \in Procs : SignupCommit(p)
    \/ \E p \in Procs : SignupReturn(p)

SpecSignup == SignupInit /\ [][SignupNext]_vars

\* a text with every letter in lower case, the accented ones included
CaseFolded(s) == [i \in DOMAIN s |-> IF s[i] = "É" THEN "é" ELSE LowerChar(s[i])]

\* the invocations that returned or are about to return
Outcomes ==
    {signed[i] : i \in DOMAIN signed}
    \cup {[username |-> signup[p].username, password |-> signup[p].password,
           result |-> signup[p].result] : p \in {q \in Procs : signup[q].pc = "return"}}

\* C18: after any interleaving of concurrent signup_user calls no two rows
\* of users have usernames that are equal ignoring letter case, and a
\* signup with a short password, a short username or a taken username
\* returns (False, message) and adds no row: every row is the row of a
\* signup that returned (True, message).
C18_UniqueIgnoringCase ==
    /\ \A a \in users, b \in users :
          CaseFolded(a.username) = CaseFolded(b.username) => a = b
    /\ \A o \in Outcomes :
          /\ (Len(o.password) < 4 \/ Len(o.username) < 3) => ~o.result.ok
          /\ ~o.result.ok => o.result.message # ""
          /\ o.result.ok =>
                \E u \in users : u.username = o.username /\ u.password = o.password
    /\ \A u \in users : \E o \in Outcomes : o.result.ok /\ o.username = u.username
    /\ Cardinality(users) = Cardinality({o \in Outcomes : o.result.ok})

====
